---------------------------- MODULE Spec2Model ----------------------------
(***************************************************************************)
(* A model of f5-oslbaasv2-ops (src/main.go): the value-list parser        *)
(* (ParseVarValues), the template expander (ConstructFromTemplate), the    *)
(* argument handler (HandleArguments) and the batch executor (RunCmds,     *)
(* CheckExecution, RunCommand).                                            *)
(*                                                                         *)
(* Go strings are modelled as sequences of one-character strings, so that  *)
(* splitting, regular-expression matching, substitution and number         *)
(* formatting are computed character by character as the code does.        *)
(***************************************************************************)
EXTENDS Integers, Sequences, FiniteSets, TLC

VARIABLES
    \* --- the value-list parser applied to one input (SpecParse) ---
    pvInput,      \* the argument v of ParseVarValues
    pvResult,     \* what ParseVarValues(v) produced
    pvDone,       \* whether ParseVarValues has been applied
    \* --- the template expander applied to one input (SpecExpand) ---
    exTemplate,   \* the argument template of ConstructFromTemplate
    exVariables,  \* the argument variables: placeholder name -> value list
    exResult,     \* what the call left in cmdList, and whether it returned
    exDone,       \* whether ConstructFromTemplate has been applied
    \* --- the program: main, HandleArguments, RunCmds (Spec) ---
    osArgs,       \* os.Args after the "--" argument
    pc,           \* where the program is: "main", "checks", "run", "poll",
                  \* "done" (RunCmds returned), "exit" (os.Exit or Fatal),
                  \* "hang" (ParseVarValues loops for ever), "overflow"
                  \* (stack exhausted), "panic" (index out of range)
    cmdList,      \* the global cmdList
    cmdResults,   \* the global cmdResults
    idx,          \* position in cmdList of the iteration of RunCmds (from 1)
    rlt,          \* CheckExecution's parameter: its copy of the record
    checkCmd,     \* CheckExecution's checkCmd
    sinceFs,      \* time passed since CheckExecution read fs
    polls,        \* show invocations of the running CheckExecution
    runnerCalls,  \* how many times RunCommand has been called
    atoiFailed,   \* whether strconv.Atoi has returned an error
    checkCr,      \* CheckExecution's cr: what its latest show invocation gave
    concurrency   \* the value of the -concurrency flag

pvVars == <<pvInput, pvResult, pvDone>>
exVars == <<exTemplate, exVariables, exResult, exDone>>
runVars == <<osArgs, pc, cmdList, cmdResults, idx, rlt, checkCmd, sinceFs,
             polls, runnerCalls, atoiFailed, checkCr, concurrency>>
vars == <<pvVars, exVars, runVars>>

(***************************************************************************)
(* Bounds of the model.                                                    *)
(***************************************************************************)
\* Width in bits of Go's int in the model (64 on the real platform; scaled
\* down so that digit strings of a few characters reach the overflow cases).
IntBits == 7
\* Largest number of comma-separated tokens in a value specification.
MaxTokens == 3
\* Largest number of pieces a template of SpecExpand is assembled from.
MaxPieces == 3
\* Largest number of values in a placeholder's value list in SpecExpand.
MaxVals == 2
\* Recursion depth of ConstructFromTemplate beyond which the model reports
\* the goroutine stack as exhausted.
MaxDepth == 5
\* Largest number of variable definitions after "++" on the command line.
MaxVarArgs == 2
\* Largest number of concrete commands of a batch.
MaxCmds == 2
\* Largest number of show invocations that report a pending status for one
\* command.
MaxPolls == 2

MaxInt == 2^(IntBits - 1) - 1

(***************************************************************************)
(* Characters and strings.                                                 *)
(***************************************************************************)
Digits == {"0", "1", "2", "3", "4", "5", "6", "7", "8", "9"}

Letters ==
    {"a", "b", "c", "d", "e", "f", "g", "h", "i", "j", "k", "l", "m",
     "n", "o", "p", "q", "r", "s", "t", "u", "v", "w", "x", "y", "z",
     "A", "B", "C", "D", "E", "F", "G", "H", "I", "J", "K", "L", "M",
     "N", "O", "P", "Q", "R", "S", "T", "U", "V", "W", "X", "Y", "Z"}

DigitVal(c) ==
    CASE c = "0" -> 0 [] c = "1" -> 1 [] c = "2" -> 2 [] c = "3" -> 3
      [] c = "4" -> 4 [] c = "5" -> 5 [] c = "6" -> 6 [] c = "7" -> 7
      [] c = "8" -> 8 [] c = "9" -> 9

DigitChar(d) ==
    CASE d = 0 -> "0" [] d = 1 -> "1" [] d = 2 -> "2" [] d = 3 -> "3"
      [] d = 4 -> "4" [] d = 5 -> "5" [] d = 6 -> "6" [] d = 7 -> "7"
      [] d = 8 -> "8" [] d = 9 -> "9"

\* strings.Split(s, sep) for a one-character separator: one piece more than
\* there are separators, empty pieces kept.
RECURSIVE SplitFrom(_, _, _, _)
SplitFrom(s, sep, k, cur) ==
    IF k > Len(s) THEN <<cur>>
    ELSE IF s[k] = sep THEN <<cur>> \o SplitFrom(s, sep, k + 1, <<>>)
    ELSE SplitFrom(s, sep, k + 1, Append(cur, s[k]))

Split(s, sep) == SplitFrom(s, sep, 1, <<>>)

\* strings.Join(parts, sep) for a one-character separator.
RECURSIVE Join(_, _)
Join(parts, sep) ==
    IF Len(parts) = 0 THEN <<>>
    ELSE IF Len(parts) = 1 THEN parts[1]
    ELSE parts[1] \o <<sep>> \o Join(Tail(parts), sep)

\* strings.HasPrefix(s, prefix).
HasPrefix(s, prefix) ==
    /\ Len(s) >= Len(prefix)
    /\ \A k \in 1..Len(prefix) : s[k] = prefix[k]

\* fmt.Sprintf("%d", n).
RECURSIVE Itoa(_)
Itoa(n) ==
    IF n < 0 THEN <<"-">> \o Itoa(-n)
    ELSE IF n < 10 THEN <<DigitChar(n)>>
    ELSE Itoa(n \div 10) \o <<DigitChar(n % 10)>>

(***************************************************************************)
(* The value-list parser.                                                  *)
(***************************************************************************)
\* p.MatchString(n) for p = `^\d+\-\d+$`: digits, one hyphen, digits.
RangePatternMatch(n) ==
    \E k \in 2..(Len(n) - 1) :
        /\ n[k] = "-"
        /\ \A j \in 1..(k - 1) : n[j] \in Digits
        /\ \A j \in (k + 1)..Len(n) : n[j] \in Digits

\* The value of a digit string, saturated just above MaxInt.
RECURSIVE DecimalFrom(_, _, _)
DecimalFrom(s, k, acc) ==
    IF k > Len(s) THEN acc
    ELSE IF acc > MaxInt THEN MaxInt + 1
    ELSE DecimalFrom(s, k + 1, acc * 10 + DigitVal(s[k]))

\* What strconv.Atoi returns for a digit string of value n: a value that
\* does not fit int is a range error, returned with the largest int.
AtoiResult(n) ==
    IF n > MaxInt THEN [val |-> MaxInt, err |-> TRUE]
    ELSE [val |-> n, err |-> FALSE]

\* strconv.Atoi on a digit string.
Atoi(s) == AtoiResult(DecimalFrom(s, 1, 0))

\* A variant of RangeLoop in which a range with s > e appends its start.
RangeLoopKeepingStart(s, e) ==
    IF ~(s <= e) THEN [vals |-> <<Itoa(s)>>, hang |-> FALSE]
    ELSE [vals |-> [k \in 1..(e - s + 1) |-> Itoa(s + k - 1)],
          hang |-> (e = MaxInt)]

\* for i := s; i <= e; i++ { rlt = append(rlt, fmt.Sprintf("%d", i)) }
\* The body runs for i = s, s+1, ..., e.  When e is the largest int, i++
\* at i = e wraps around to the smallest int, which is again <= e: the
\* loop never ends (hang), vals being what it appended in its first pass.
RangeLoop(s, e) ==
    IF ~(s <= e) THEN [vals |-> <<>>, hang |-> FALSE]
    ELSE [vals |-> [k \in 1..(e - s + 1) |-> Itoa(s + k - 1)],
          hang |-> (e = MaxInt)]

\* What one range token yields: the loop's outcome, and whether an Atoi
\* error was discarded on the way.
WithAtoiErr(lp, err) == [vals |-> lp.vals, hang |-> lp.hang, atoiErr |-> err]

\* s, _ := strconv.Atoi(se[0]); e, _ := strconv.Atoi(se[1]); the loop.
ParseRange(s, e) == WithAtoiErr(RangeLoop(s.val, e.val), s.err \/ e.err)

\* se := strings.Split(n, "-") and what follows it.
ParseRangeToken(se) == ParseRange(Atoi(se[1]), Atoi(se[2]))

\* One iteration of the loop over ls: what the token n appends to rlt,
\* whether the iteration never ends, and whether an Atoi error was dropped.
ParseToken(n) ==
    IF RangePatternMatch(n) THEN ParseRangeToken(Split(n, "-"))
    ELSE [vals |-> <<n>>, hang |-> FALSE, atoiErr |-> FALSE]

\* rlt = append(rlt, ...) by one token.
AppendToken(acc, t) ==
    [rlt     |-> acc.rlt \o t.vals,
     hang    |-> t.hang,
     atoiErr |-> (acc.atoiErr \/ t.atoiErr)]

\* The loop over the tokens, left to right, from the k-th; a token whose
\* loop never ends is the last one reached.
RECURSIVE ParseTokens(_, _, _)
ParseTokens(acc, ls, k) ==
    IF k > Len(ls) \/ acc.hang THEN acc
    ELSE ParseTokens(AppendToken(acc, ParseToken(ls[k])), ls, k + 1)

NoResult == [rlt |-> <<>>, hang |-> FALSE, atoiErr |-> FALSE]

\* ParseVarValues(v): rlt is the returned list when hang is FALSE; when hang
\* is TRUE the call never returns.  atoiErr records that strconv.Atoi
\* returned an error, which the code discards.
ParseVarValues(v) == ParseTokens(NoResult, Split(v, ","), 1)

(***************************************************************************)
(* The template expander.                                                  *)
(***************************************************************************)
IdentStart == Letters \cup {"_"}
IdentChar == IdentStart \cup Digits

\* The first index >= k of s that holds no letter, digit or underscore
\* (Len(s) + 1 when there is none).
RECURSIVE IdentRunEnd(_, _)
IdentRunEnd(s, k) ==
    IF k > Len(s) THEN k
    ELSE IF s[k] \in IdentChar THEN IdentRunEnd(s, k + 1)
    ELSE k

\* j when s holds the closing brace there, 0 otherwise.
ClosingBraceAt(s, j) == IF j <= Len(s) /\ s[j] = "}" THEN j ELSE 0

\* varRegexp = `%\{[a-zA-Z_][a-zA-Z0-9_]*\}` tried at index i of s: the
\* index of the closing brace of the match, 0 when there is no match at i.
PlaceholderEnd(s, i) ==
    IF /\ i + 3 <= Len(s)
       /\ s[i] = "%"
       /\ s[i + 1] = "{"
       /\ s[i + 2] \in IdentStart
    THEN ClosingBraceAt(s, IdentRunEnd(s, i + 3))
    ELSE 0

\* The first index >= k at which varRegexp matches, 0 when there is none.
RECURSIVE FirstMatch(_, _)
FirstMatch(s, k) ==
    IF k > Len(s) THEN 0
    ELSE IF PlaceholderEnd(s, k) > 0 THEN k
    ELSE FirstMatch(s, k + 1)

\* The text of the match that starts at i ("" for i = 0, no match).
MatchText(s, i) == IF i = 0 THEN <<>> ELSE SubSeq(s, i, PlaceholderEnd(s, i))

\* varRegexp.FindString(template): the leftmost match, "" when none.
FindString(template) == MatchText(template, FirstMatch(template, 1))

\* Regexp.expand of a replacement text against a match of a pattern that
\* has no capture groups: "$$" is a dollar sign, "$0" and "${0}" are the
\* matched text, any other "$name" or "${name}" is the empty string, and a
\* "$" that starts no name stays as it is.
RECURSIVE ExpandFrom(_, _, _)
RECURSIVE ExpandName(_, _, _, _, _)
ExpandFrom(repl, k, match) ==
    IF k > Len(repl) THEN <<>>
    ELSE IF repl[k] # "$" THEN <<repl[k]>> \o ExpandFrom(repl, k + 1, match)
    ELSE IF k + 1 <= Len(repl) /\ repl[k + 1] = "$"
         THEN <<"$">> \o ExpandFrom(repl, k + 2, match)
    ELSE IF k + 1 <= Len(repl) /\ repl[k + 1] = "{"
         THEN ExpandName(repl, k, match, k + 2, IdentRunEnd(repl, k + 2))
    ELSE ExpandName(repl, k, match, k + 1, IdentRunEnd(repl, k + 1))

\* The "$" at index k, followed by the name repl[start .. nameEnd - 1], in
\* braces when start = k + 2.
ExpandName(repl, k, match, start, nameEnd) ==
    IF \/ nameEnd = start
       \/ (start = k + 2 /\ ClosingBraceAt(repl, nameEnd) = 0)
    THEN <<"$">> \o ExpandFrom(repl, k + 1, match)
    ELSE (IF SubSeq(repl, start, nameEnd - 1) = <<"0">> THEN match ELSE <<>>)
            \o ExpandFrom(repl, IF start = k + 2 THEN nameEnd + 1 ELSE nameEnd, match)

\* Whether the text old starts at index k of src.
OccursAt(src, old, k) ==
    /\ k + Len(old) - 1 <= Len(src)
    /\ \A j \in 1..Len(old) : src[k + j - 1] = old[j]

RECURSIVE ReplaceFrom(_, _, _, _)
ReplaceFrom(src, old, new, k) ==
    IF k > Len(src) THEN <<>>
    ELSE IF OccursAt(src, old, k)
         THEN new \o ReplaceFrom(src, old, new, k + Len(old))
    ELSE <<src[k]>> \o ReplaceFrom(src, old, new, k + 1)

\* regexp.MustCompile(varInTmp).ReplaceAllString(template, k): varInTmp is
\* "%{name}", which as a pattern matches exactly that text; every
\* non-overlapping occurrence, left to right, is replaced by the expansion
\* of the replacement text k.
ReplaceAllString(template, varInTmp, k) ==
    ReplaceFrom(template, varInTmp, ExpandFrom(k, 1, varInTmp), 1)

\* A variant of VarLookup in which a name without values has the empty
\* string for its one value.
VarLookupDefaulting(variables, varName) ==
    IF varName \in DOMAIN variables /\ variables[varName] # <<>>
    THEN variables[varName]
    ELSE << <<>> >>

\* variables[varName] of a Go map: the nil (empty) list for an absent key.
VarLookup(variables, varName) ==
    IF varName \in DOMAIN variables THEN variables[varName] ELSE <<>>

\* varName := varInTmp[2 : l-1]
VarNameOf(varInTmp) == SubSeq(varInTmp, 3, Len(varInTmp) - 1)

NoExpansion == [cmds |-> <<>>, overflow |-> FALSE]

\* A variant of AppendCmds in which what a call emits goes in front.
AppendCmdsInFront(acc, sub) ==
    [cmds |-> sub.cmds \o acc.cmds, overflow |-> sub.overflow]

\* cmdList after a recursive call: what was there, then what the call
\* appended; overflow when the call died.
AppendCmds(acc, sub) ==
    [cmds |-> acc.cmds \o sub.cmds, overflow |-> sub.overflow]

\* ConstructFromTemplate at recursion depth d.  cmds is what the call
\* appended to cmdList; overflow tells that the recursion went deeper than
\* MaxDepth (the call does not return: the program dies of stack exhaustion).
RECURSIVE ConstructRec(_, _, _)
RECURSIVE ConstructAt(_, _, _, _)
RECURSIVE ConstructLoop(_, _, _, _, _, _, _)
ConstructRec(template, variables, d) ==
    ConstructAt(template, variables, d, FindString(template))

\* The body of ConstructFromTemplate once varInTmp is known.
ConstructAt(template, variables, d, varInTmp) ==
    IF varInTmp = <<>> THEN [cmds |-> <<template>>, overflow |-> FALSE]
    ELSE IF d >= MaxDepth THEN [cmds |-> <<>>, overflow |-> TRUE]
    ELSE ConstructLoop(template, variables, d, varInTmp,
                       VarLookup(variables, VarNameOf(varInTmp)), 1, NoExpansion)

\* for _, k := range variables[varName] { ... }, from the j-th value on;
\* acc is what the earlier passes appended to cmdList.
ConstructLoop(template, variables, d, varInTmp, values, j, acc) ==
    IF j > Len(values) \/ acc.overflow THEN acc
    ELSE ConstructLoop(template, variables, d, varInTmp, values, j + 1,
             AppendCmds(acc,
                 ConstructRec(ReplaceAllString(template, varInTmp, values[j]),
                              variables, d + 1)))

ConstructFromTemplate(template, variables) == ConstructRec(template, variables, 0)

(***************************************************************************)
(* HandleArguments.                                                        *)
(***************************************************************************)
PlusPlus == <<"+", "+">>

\* StringArray.IndexOf, counting positions from 1: 0 when item is absent.
RECURSIVE IndexFrom(_, _, _)
IndexFrom(sa, item, i) ==
    IF i > Len(sa) THEN 0
    ELSE IF sa[i] = item THEN i
    ELSE IndexFrom(sa, item, i + 1)

IndexOf(sa, item) == IndexFrom(sa, item, 1)

\* varRegexp.FindAllString(n, -1): the matches from index k on, left to
\* right, none overlapping.
RECURSIVE FindAllString(_, _)
RECURSIVE FindAllAfter(_, _, _)
FindAllString(n, k) ==
    IF k > Len(n) THEN <<>> ELSE FindAllAfter(n, k, PlaceholderEnd(n, k))

\* end is where the match that starts at k ends (0: no match starts at k).
FindAllAfter(n, k, end) ==
    IF end = 0 THEN FindAllString(n, k + 1)
    ELSE <<SubSeq(n, k, end)>> \o FindAllString(n, end + 1)

\* The names of the matches m: m[2 : l-1].
MatchNames(matches) == { VarNameOf(matches[i]) : i \in 1..Len(matches) }

\* for _, m := range matches { variables[varName] = []string{} }
DeclareNames(variables, names) ==
    [k \in (DOMAIN variables) \cup names |->
        IF k \in names THEN <<>> ELSE variables[k]]

DeclareVars(st, matches) ==
    [st EXCEPT !.variables = DeclareNames(@, MatchNames(matches))]

\* The names k of variables with strings.HasPrefix(n, k + ":").  No two
\* names make k + ":" a prefix of the same n, so the order in which the map
\* is ranged over does not matter.
NamesDefinedBy(variables, n) ==
    { k \in DOMAIN variables : HasPrefix(n, k \o <<":">>) }

\* variables[k] = append(variables[k], v...) for the v ParseVarValues gave.
AppendValues(st, k, v) ==
    [variables |-> [st.variables EXCEPT ![k] = @ \o v.rlt],
     hang      |-> v.hang,
     atoiErr   |-> (st.atoiErr \/ v.atoiErr)]

\* kvp := strings.Split(n, ":"); v := ParseVarValues(strings.Join(kvp[1:], ":"))
ValuesDefinedBy(n) == ParseVarValues(Join(Tail(Split(n, ":")), ":"))

\* for k := range variables { if strings.HasPrefix(n, k + ":") { ... } }
DefineVar(st, n) ==
    IF NamesDefinedBy(st.variables, n) = {} THEN st
    ELSE AppendValues(st, CHOOSE k \in NamesDefinedBy(st.variables, n) : TRUE,
                      ValuesDefinedBy(n))

\* The loop over os.Args[neutronArgsIndex+1:], from the i-th argument on;
\* st holds the variables so far.
RECURSIVE ArgLoop(_, _, _, _)
ArgLoop(args, i, varStart, st) ==
    IF i > Len(args) \/ st.hang THEN st
    ELSE IF args[i] = PlusPlus THEN ArgLoop(args, i + 1, TRUE, st)
    ELSE IF ~varStart
         THEN ArgLoop(args, i + 1, varStart,
                      DeclareVars(st, FindAllString(args[i], 1)))
    ELSE ArgLoop(args, i + 1, varStart, DefineVar(st, args[i]))

NoVariables == [variables |-> <<>>, hang |-> FALSE, atoiErr |-> FALSE]

\* variableArgsIndex: the position of the first "++", or past the end.
VariableArgsIndex(args, found) == IF found = 0 THEN Len(args) + 1 ELSE found

\* neutronCmdArgs := strings.Join(os.Args[neutronArgsIndex+1:variableArgsIndex], " ")
NeutronCmdArgs(args) ==
    Join(SubSeq(args, 1, VariableArgsIndex(args, IndexOf(args, PlusPlus)) - 1), " ")

\* The outcome of HandleArguments, from the variables and the expansion.
ArgumentsHandled(st, ex) ==
    [hang     |-> st.hang,
     atoiErr  |-> st.atoiErr,
     overflow |-> ex.overflow,
     cmdList  |-> ex.cmds]

\* ConstructFromTemplate(neutronCmdArgs, variables), which is reached only
\* when the loop over the arguments ended.
ConstructAfter(template, st) ==
    ArgumentsHandled(st,
        IF st.hang THEN NoExpansion
        ELSE ConstructFromTemplate(template, st.variables))

\* HandleArguments on the arguments after "--".
HandleArguments(args) ==
    ConstructAfter(NeutronCmdArgs(args), ArgLoop(args, 1, FALSE, NoVariables))

(***************************************************************************)
(* RunCommand, CheckExecution, RunCmds.                                    *)
(***************************************************************************)
cmdPrefix == <<"n", "e", "u", "t", "r", "o", "n", " ", "l", "b", "a", "a", "s", "-">>

\* A Go map[string]interface{} is a set of <<key, value>> pairs, with a
\* flag for the nil map.
NilOut == [nil |-> TRUE, obj |-> {}]
HasKey(out, key) == \E kv \in out.obj : kv[1] = key
ValueOf(out, key) == (CHOOSE kv \in out.obj : kv[1] = key)[2]

\* A variant of RunCommand that leaves e.Error() out of the error text.
RunCommandWithoutErrorText(cmd, oc, d) ==
    [Seq             |-> 0,
     Command         |-> cmd,
     Out             |-> IF oc.kind # "ok" THEN NilOut
                         ELSE IF oc.json THEN oc.out
                         ELSE [nil |-> FALSE, obj |-> {<<"message", oc.raw>>}],
     Err             |-> oc.stderr,
     ExitCode        |-> IF oc.kind = "ok" THEN 0 ELSE oc.code,
     Duration        |-> d,
     Checked         |-> <<>>,
     CheckedDuration |-> 0]

\* RunCommand(cmd) when the subprocess behaves as oc and takes d ticks.
\* oc.kind is "nostart" (c.Start failed), "fail" (c.Wait returned an
\* error) or "ok"; oc.error is e.Error(), oc.code the exit status (-1 of a
\* process that never started), oc.stderr what the process wrote to
\* standard error, oc.json whether standard output unmarshals into a map,
\* and oc.out that map (oc.raw the bytes otherwise).
RunCommand(cmd, oc, d) ==
    [Seq             |-> 0,
     Command         |-> cmd,
     Out             |-> IF oc.kind # "ok" THEN NilOut
                         ELSE IF oc.json THEN oc.out
                         ELSE [nil |-> FALSE, obj |-> {<<"message", oc.raw>>}],
     Err             |-> IF oc.kind = "ok" THEN oc.stderr ELSE oc.stderr \o oc.error,
     ExitCode        |-> IF oc.kind = "ok" THEN 0 ELSE oc.code,
     Duration        |-> d,
     Checked         |-> <<>>,
     CheckedDuration |-> 0]

\* A variant of AppendResult that keeps the records of exit code 0 only.
AppendResultOfSuccess(results, cr) ==
    IF cr.ExitCode # 0 THEN results ELSE Append(results, cr)

\* cmdResults = append(cmdResults, cr)
AppendResult(results, cr) == Append(results, cr)

\* A variant of SkipsCheck that skips only a process that never started.
SkipsCheckOfUnstarted(cr) == cr.ExitCode < 0

\* if cr.ExitCode != 0 { continue }
SkipsCheck(cr) == cr.ExitCode # 0

\* fullCmd := fmt.Sprintf("%s%s", cmdPrefix, n)
FullCmd(n) == cmdPrefix \o n

\* args := strings.Split(rlt.Command, " "); args[1]
SecondArg(r) == Split(r.Command, " ")[2]

\* subs := strings.Split(args[1], "-")
CheckSubs(r) == Split(SecondArg(r), "-")

\* resourceType, operation := subs[1], subs[2] panics when subs is shorter.
SubsTooShort(r) == Len(CheckSubs(r)) < 3
ResourceType(r) == CheckSubs(r)[2]
Operation(r) == CheckSubs(r)[3]

\* operation == "create" || operation == "update"
NeedsPolling(r) ==
    Operation(r) \in { <<"c", "r", "e", "a", "t", "e">>, <<"u", "p", "d", "a", "t", "e">> }

\* fmt.Sprintf("%s", rlt.Out["id"]): the id when it is there (a string),
\* fmt's notice of a nil operand otherwise.
FormatId(out) ==
    IF HasKey(out, "id") THEN ValueOf(out, "id")
    ELSE <<"%", "!", "s", "(", "<", "n", "i", "l", ">", ")">>

\* A variant of CheckCommand that shows the resource by the command's third
\* token instead of by the id in its output.
CheckCommandByThirdToken(r) ==
    <<"n", "e", "u", "t", "r", "o", "n", " ", "l", "b", "a", "a", "s", "-">> \o ResourceType(r)
        \o <<"-", "s", "h", "o", "w", " ">> \o Split(r.Command, " ")[3]

\* fmt.Sprintf("neutron lbaas-%s-show %s", resourceType, rlt.Out["id"])
CheckCommand(r) ==
    <<"n", "e", "u", "t", "r", "o", "n", " ", "l", "b", "a", "a", "s", "-">> \o ResourceType(r)
        \o <<"-", "s", "h", "o", "w", " ">> \o FormatId(r.Out)

\* json.Marshal(cr.Out) unmarshalled into a NeutronResponse: the fields
\* that are there, the empty string for the others.
StatOf(out) ==
    [ID                 |-> IF HasKey(out, "id") THEN ValueOf(out, "id") ELSE <<>>,
     ProvisioningStatus |-> IF HasKey(out, "provisioning_status")
                            THEN ValueOf(out, "provisioning_status") ELSE <<>>]

PendingPrefix == <<"P", "E", "N", "D", "I", "N", "G", "_">>

\* A variant of StillPending in which every status but ACTIVE is pending.
StillPendingUnlessActive(cr) ==
    StatOf(cr.Out).ProvisioningStatus # <<"A", "C", "T", "I", "V", "E">>

\* strings.HasPrefix(stat.ProvisioningStatus, "PENDING_")
StillPending(cr) == HasPrefix(StatOf(cr.Out).ProvisioningStatus, PendingPrefix)

\* rlt.Checked = fmt.Sprintf("%s done", args[1])
CheckedNotNeeded(r) == [r EXCEPT !.Checked = SecondArg(r) \o <<" ", "d", "o", "n", "e">>]

\* A variant of CheckedFailed that records nothing.
CheckedFailedSilently(r, cr) == r

\* rlt.Checked = fmt.Sprintf("Failed to check execution of %s: %s", rlt.Command, cr.Err)
CheckedFailed(r, cr) ==
    [r EXCEPT !.Checked =
        <<"F", "a", "i", "l", "e", "d", " ", "t", "o", " ", "c", "h", "e", "c", "k", " ", "e", "x", "e", "c", "u", "t", "i", "o", "n", " ", "o", "f", " ">>
            \o r.Command \o <<":", " ">> \o cr.Err]

\* A variant of CheckedStatus that records the status without the id.
CheckedStatusWithoutId(r, cr) ==
    [r EXCEPT !.Checked = StatOf(cr.Out).ProvisioningStatus]

\* rlt.Checked = fmt.Sprintf("%s: %s", stat.ID, stat.ProvisioningStatus)
CheckedStatus(r, cr) ==
    [r EXCEPT !.Checked =
        StatOf(cr.Out).ID \o <<":", " ">> \o StatOf(cr.Out).ProvisioningStatus]

\* rlt.CheckedDuration = fe.Sub(fs) + rlt.Duration
WithCheckedDuration(r, elapsed) == [r EXCEPT !.CheckedDuration = elapsed + r.Duration]

\* CheckExecution receives its CommandResult by value: what it assigns to
\* rlt changes its own copy, and the record in cmdResults stays as it was.
ResultsAfterCheck(results, r) == results

(***************************************************************************)
(* Idle values of the variables a specification does not use.              *)
(***************************************************************************)
NoRecord ==
    [Seq |-> 0, Command |-> <<>>, Out |-> NilOut, Err |-> <<>>, ExitCode |-> 0,
     Duration |-> 0, Checked |-> <<>>, CheckedDuration |-> 0]

ParseIdle ==
    /\ pvInput = <<>>
    /\ pvResult = NoResult
    /\ pvDone = FALSE

ExpandIdle ==
    /\ exTemplate = <<>>
    /\ exVariables = <<>>
    /\ exResult = NoExpansion
    /\ exDone = FALSE

RunIdle ==
    /\ osArgs = <<>>
    /\ pc = "idle"
    /\ cmdList = <<>>
    /\ cmdResults = <<>>
    /\ idx = 1
    /\ rlt = NoRecord
    /\ checkCmd = <<>>
    /\ sinceFs = 0
    /\ polls = 0
    /\ runnerCalls = 0
    /\ atoiFailed = FALSE
    /\ checkCr = NoRecord
    /\ concurrency = 1

(***************************************************************************)
(* SpecParse: ParseVarValues applied to one input.                         *)
(***************************************************************************)
MaxIntText == Itoa(MaxInt)

\* Tokens the inputs are built from: literals, ranges, an inverted range,
\* a padded range, near-ranges, ranges whose bounds do not fit int, and
\* the range that ends at the largest int.
ParseTokenSet ==
    { <<>>,
      <<"x">>,
      <<"a">>,
      <<"5">>,
      <<"1", "-", "3">>,
      <<"5", "-", "5">>,
      <<"3", "-", "1">>,
      <<"0", "2", "-", "0", "3">>,
      <<"1", "-">>,
      <<"1", "-", "2", "-", "3">>,
      <<"9", "9", "9", "9", "-", "1">>,
      <<"1", "-", "9", "9", "9", "9">>,
      MaxIntText \o <<"-">> \o MaxIntText }

TokenLists == UNION { [1..n -> ParseTokenSet] : n \in 1..MaxTokens }

ParseInputs == { Join(ts, ",") : ts \in TokenLists }

ParseInit ==
    /\ pvInput \in ParseInputs
    /\ pvResult = NoResult
    /\ pvDone = FALSE
    /\ ExpandIdle
    /\ RunIdle

ParseApply ==
    /\ ~pvDone
    /\ pvResult' = ParseVarValues(pvInput)
    /\ pvDone' = TRUE
    /\ UNCHANGED <<pvInput, exVars, runVars>>

ParseNext == ParseApply

SpecParse == ParseInit /\ [][ParseNext]_vars

(***************************************************************************)
(* SpecExpand: ConstructFromTemplate applied to one template and mapping.  *)
(***************************************************************************)
PhX == <<"%", "{", "x", "}">>
PhY == <<"%", "{", "y", "}">>

\* Pieces the templates are assembled from: plain text, the two
\* placeholders, and the two halves of a placeholder's brackets.
TemplatePieces == { <<"c">>, PhX, PhY, <<"%", "{">>, <<"}">> }

RECURSIVE Concat(_)
Concat(parts) == IF Len(parts) = 0 THEN <<>> ELSE parts[1] \o Concat(Tail(parts))

ExpandTemplates ==
    { Concat(ps) : ps \in UNION { [1..n -> TemplatePieces] : n \in 0..MaxPieces } }

\* Values of x: two names, a placeholder, and the replacement escapes.
ValuesOfX == { <<"y">>, <<"z">>, PhY, <<"$", "0">>, <<"$", "$">> }
\* Values of y: plain text.
ValuesOfY == { <<"1">>, <<"y">> }

ListsOver(S) == UNION { [1..n -> S] : n \in 0..MaxVals }

\* The mappings: x and y each declared with a list, or absent.
ExpandMappings ==
    { [n \in {<<"x">>, <<"y">>} |-> IF n = <<"x">> THEN lx ELSE ly] :
        lx \in ListsOver(ValuesOfX), ly \in ListsOver(ValuesOfY) }
    \cup { [n \in {<<"x">>} |-> lx] : lx \in ListsOver(ValuesOfX) }
    \cup { [n \in {<<"y">>} |-> ly] : ly \in ListsOver(ValuesOfY) }

ExpandInit ==
    /\ exTemplate \in ExpandTemplates
    /\ exVariables \in ExpandMappings
    /\ exResult = NoExpansion
    /\ exDone = FALSE
    /\ ParseIdle
    /\ RunIdle

ExpandApply ==
    /\ ~exDone
    /\ exResult' = ConstructFromTemplate(exTemplate, exVariables)
    /\ exDone' = TRUE
    /\ UNCHANGED <<exTemplate, exVariables, pvVars, runVars>>

ExpandNext == ExpandApply

SpecExpand == ExpandInit /\ [][ExpandNext]_vars

(***************************************************************************)
(* Spec: the program, from main's call of HandleArguments to the return of *)
(* RunCmds.                                                                *)
(***************************************************************************)
\* The command templates (the arguments between "--" and "++").
TemplateArgLists ==
    { << <<"l", "b", "-", "c", "r", "e", "a", "t", "e">>, PhX >>,
      << <<"l", "b", "-", "u", "p", "d", "a", "t", "e">>, PhY >>,
      << <<"l", "b", "-", "s", "h", "o", "w">>, PhX \o PhY >>,
      << <<"l", "b", "-", "d", "e", "l", "e", "t", "e">>, PhX >>,
      << <<"l", "b", "-", "l", "i", "s", "t">> >>,
      << <<"l", "b">>, PhX >> }

\* The variable definitions (the arguments after "++"): a range, a literal,
\* a range whose start does not fit int, a range whose end does not fit
\* int, and a value that stands for its own placeholder.
VarDefs ==
    { <<"x", ":", "1", "-", "2">>,
      <<"y", ":", "b">>,
      <<"x", ":", "9", "9", "9", "9", "-", "1", ",", "a">>,
      <<"x", ":", "1", "-", "9", "9", "9", "9">>,
      <<"x", ":", "$", "0">> }

VarArgLists == UNION { [1..n -> VarDefs] : n \in 0..MaxVarArgs }

CommandLines ==
    { IF vs = <<>> THEN ts ELSE ts \o <<PlusPlus>> \o vs :
        ts \in TemplateArgLists, vs \in VarArgLists }

\* The command lines whose batch has at most MaxCmds commands.
ArgLists ==
    { args \in CommandLines : Len(HandleArguments(args).cmdList) <= MaxCmds }

\* What a subprocess can do: not start, exit with status 1, or exit with
\* status 0 having printed an object with a pending status, an object with
\* a final status, an empty object, the JSON value null, or text that is
\* no JSON.
IdValue == <<"7">>
ProcOutcomes ==
    { [kind |-> "nostart", code |-> -1, stderr |-> <<>>, json |-> FALSE,
       out |-> NilOut, raw |-> <<>>,
       error |-> <<"n", "o", "t", " ", "f", "o", "u", "n", "d">>],
      [kind |-> "fail", code |-> 1, stderr |-> <<"E">>, json |-> FALSE,
       out |-> NilOut, raw |-> <<>>,
       error |-> <<"e", "x", "i", "t", " ", "s", "t", "a", "t", "u", "s", " ", "1">>],
      [kind |-> "ok", code |-> 0, stderr |-> <<>>, json |-> TRUE,
       out |-> [nil |-> FALSE,
                obj |-> { <<"id", IdValue>>,
                          <<"provisioning_status", <<"P", "E", "N", "D", "I", "N", "G", "_", "C", "R", "E", "A", "T", "E">>>> }],
       raw |-> <<>>, error |-> <<>>],
      [kind |-> "ok", code |-> 0, stderr |-> <<>>, json |-> TRUE,
       out |-> [nil |-> FALSE,
                obj |-> { <<"id", IdValue>>,
                          <<"provisioning_status", <<"A", "C", "T", "I", "V", "E">>>> }],
       raw |-> <<>>, error |-> <<>>],
      [kind |-> "ok", code |-> 0, stderr |-> <<>>, json |-> TRUE,
       out |-> [nil |-> FALSE, obj |-> {}],
       raw |-> <<>>, error |-> <<>>],
      [kind |-> "ok", code |-> 0, stderr |-> <<>>, json |-> TRUE,
       out |-> NilOut, raw |-> <<>>, error |-> <<>>],
      [kind |-> "ok", code |-> 0, stderr |-> <<"W">>, json |-> FALSE,
       out |-> NilOut, raw |-> <<"o", "k">>, error |-> <<>>] }

\* The values of the -concurrency flag: its default and a larger one.
ConcurrencyHints == {1, 2}

\* How long a subprocess can take, and how long CheckExecution can spend
\* outside subprocesses between its two clock readings, in clock ticks.
Durations == {1, 2}
Ticks == {0, 1}

Init ==
    /\ osArgs \in ArgLists
    /\ pc = "main"
    /\ cmdList = <<>>
    /\ cmdResults = <<>>
    /\ idx = 1
    /\ rlt = NoRecord
    /\ checkCmd = <<>>
    /\ sinceFs = 0
    /\ polls = 0
    /\ runnerCalls = 0
    /\ atoiFailed = FALSE
    /\ checkCr = NoRecord
    /\ concurrency \in ConcurrencyHints
    /\ ParseIdle
    /\ ExpandIdle

\* main: HandleArguments().
MainHandleArguments ==
    /\ pc = "main"
    /\ \E h \in {HandleArguments(osArgs)} :
          /\ pc' = IF h.hang THEN "hang"
                   ELSE IF h.overflow THEN "overflow"
                   ELSE "checks"
          /\ cmdList' = h.cmdList
          /\ atoiFailed' = h.atoiErr
    /\ UNCHANGED <<osArgs, cmdResults, idx, rlt, checkCmd, sinceFs, polls,
                   runnerCalls, checkCr, concurrency, pvVars, exVars>>

\* main: the OS_USERNAME test and exec.LookPath("neutron"); either ends the
\* program or lets it go on to RunCmds.
MainChecks ==
    /\ pc = "checks"
    /\ \E ok \in BOOLEAN : pc' = IF ok THEN "run" ELSE "exit"
    /\ UNCHANGED <<osArgs, cmdList, cmdResults, idx, rlt, checkCmd, sinceFs,
                   polls, runnerCalls, atoiFailed, checkCr, concurrency,
                   pvVars, exVars>>

\* One iteration of RunCmds up to its next subprocess: RunCommand(fullCmd),
\* the append, and, after exit code 0, CheckExecution up to its first show
\* invocation or, when none is needed, to its return.
RunCmdsIteration ==
    /\ pc = "run"
    /\ idx <= Len(cmdList)
    /\ \E oc \in ProcOutcomes, d \in Durations, tick \in Ticks :
        \E cr \in {RunCommand(FullCmd(cmdList[idx]), oc, d)} :
          /\ runnerCalls' = runnerCalls + 1
          /\ checkCr' = NoRecord
          /\ IF SkipsCheck(cr)
             THEN /\ cmdResults' = AppendResult(cmdResults, cr)
                  /\ pc' = "run"
                  /\ idx' = idx + 1
                  /\ rlt' = NoRecord
                  /\ UNCHANGED <<checkCmd, sinceFs, polls>>
             ELSE IF SubsTooShort(cr)
             THEN /\ cmdResults' = AppendResult(cmdResults, cr)
                  /\ pc' = "panic"
                  /\ rlt' = cr
                  /\ UNCHANGED <<idx, checkCmd, sinceFs, polls>>
             ELSE IF NeedsPolling(cr)
             THEN /\ cmdResults' = AppendResult(cmdResults, cr)
                  /\ pc' = "poll"
                  /\ rlt' = cr
                  /\ checkCmd' = CheckCommand(cr)
                  /\ sinceFs' = 0
                  /\ polls' = 0
                  /\ UNCHANGED idx
             ELSE /\ rlt' = WithCheckedDuration(CheckedNotNeeded(cr), tick)
                  /\ cmdResults' = ResultsAfterCheck(AppendResult(cmdResults, cr), rlt')
                  /\ pc' = "run"
                  /\ idx' = idx + 1
                  /\ UNCHANGED <<checkCmd, sinceFs, polls>>
    /\ UNCHANGED <<osArgs, cmdList, atoiFailed, concurrency, pvVars, exVars>>

\* One pass of CheckExecution's loop: RunCommand(checkCmd) and what follows
\* it, to the next show invocation or to the return into RunCmds.
CheckExecutionPoll ==
    /\ pc = "poll"
    /\ \E oc \in ProcOutcomes, d \in Durations, tick \in Ticks :
        \E cr \in {RunCommand(checkCmd, oc, d)} :
          /\ runnerCalls' = runnerCalls + 1
          /\ polls' = polls + 1
          /\ sinceFs' = sinceFs + d
          /\ checkCr' = cr
          /\ IF cr.ExitCode # 0
             THEN /\ rlt' = WithCheckedDuration(CheckedFailed(rlt, cr), sinceFs + d + tick)
                  /\ cmdResults' = ResultsAfterCheck(cmdResults, rlt')
                  /\ pc' = "run"
                  /\ idx' = idx + 1
             ELSE IF StillPending(cr)
             THEN /\ polls < MaxPolls
                  /\ UNCHANGED <<rlt, cmdResults, pc, idx>>
             ELSE /\ rlt' = WithCheckedDuration(CheckedStatus(rlt, cr), sinceFs + d + tick)
                  /\ cmdResults' = ResultsAfterCheck(cmdResults, rlt')
                  /\ pc' = "run"
                  /\ idx' = idx + 1
    /\ UNCHANGED <<osArgs, cmdList, checkCmd, atoiFailed, concurrency,
                   pvVars, exVars>>

\* RunCmds returns: the range over cmdList is exhausted.
RunCmdsReturn ==
    /\ pc = "run"
    /\ idx > Len(cmdList)
    /\ pc' = "done"
    /\ UNCHANGED <<osArgs, cmdList, cmdResults, idx, rlt, checkCmd, sinceFs,
                   polls, runnerCalls, atoiFailed, checkCr, concurrency,
                   pvVars, exVars>>

Next ==
    \/ MainHandleArguments
    \/ MainChecks
    \/ RunCmdsIteration
    \/ CheckExecutionPoll
    \/ RunCmdsReturn

Spec == Init /\ [][Next]_vars

(***************************************************************************)
(* Properties of the batch executor (Spec).                                *)
(***************************************************************************)
\* The records of the commands RunCmds has finished with: the iteration of
\* the command at position i has ended.
Processed(i) == i < idx

\* The operations CheckExecution does not poll for.
UnpolledOperations == { <<"s", "h", "o", "w">>, <<"l", "i", "s", "t">>, <<"d", "e", "l", "e", "t", "e">> }

\* C1: after RunCmds has processed a command whose process exited with code
\* 0, the record stored for it in cmdResults has its Checked field set
\* (non-empty) and its CheckedDuration set.
C1_StoredRecordCarriesCheckOutcome ==
    \A i \in 1..Len(cmdResults) :
        (Processed(i) /\ cmdResults[i].ExitCode = 0)
            => /\ cmdResults[i].Checked # <<>>
               /\ cmdResults[i].CheckedDuration # 0

\* C2: RunCmds produces one record per concrete command, in order: at every
\* point of the run record i of cmdResults holds the command text built from
\* the i-th command of cmdList, there is a record for every command whose
\* iteration has begun and for no other, a step never removes, reorders or
\* rewrites a record that is there, and when RunCmds returns cmdResults is
\* as long as cmdList, whichever commands failed.
C2_OneRecordPerCommandInOrder ==
    /\ [](/\ Len(cmdResults) <= Len(cmdList)
          /\ \A i \in 1..Len(cmdResults) :
                cmdResults[i].Command = cmdPrefix \o cmdList[i]
          /\ (pc = "run" => Len(cmdResults) = idx - 1)
          /\ (pc \in {"poll", "panic"} => Len(cmdResults) = idx)
          /\ (pc = "done" => Len(cmdResults) = Len(cmdList)))
    /\ [][/\ Len(cmdResults') >= Len(cmdResults)
          /\ SubSeq(cmdResults', 1, Len(cmdResults)) = cmdResults]_vars

\* C2's case: RunCmds has returned from a batch of two commands, the first
\* of which failed and the second of which exited with code 0.
C2_Witness ==
    /\ pc = "done"
    /\ Len(cmdList) = 2
    /\ Len(cmdResults) = 2
    /\ cmdResults[1].ExitCode # 0
    /\ cmdResults[2].ExitCode = 0

\* C3: sequence numbers are assigned by position: in the final cmdResults no
\* two records of a batch share a sequence number.
C3_SequenceNumbersDistinct ==
    pc = "done" =>
        \A i, j \in 1..Len(cmdResults) :
            i # j => cmdResults[i].Seq # cmdResults[j].Seq

\* C9: a range bound that fails to parse aborts the batch before any
\* command is executed: no run in which strconv.Atoi returned an error
\* reaches a call of RunCommand.
C9_AtoiFailureAbortsBeforeExecution ==
    atoiFailed => runnerCalls = 0

\* C10: a command whose operation is show, list or delete never enters the
\* polling state, and once it has been processed after exit code 0 its
\* record's Checked is the second token followed by " done" and its
\* CheckedDuration equals its Duration.
C10_UnpolledCommandCheckedAtOnce ==
    /\ pc = "poll" => Operation(cmdResults[idx]) \notin UnpolledOperations
    /\ \A i \in 1..Len(cmdResults) :
          (/\ Processed(i)
           /\ cmdResults[i].ExitCode = 0
           /\ ~SubsTooShort(cmdResults[i])
           /\ Operation(cmdResults[i]) \in UnpolledOperations)
              => /\ cmdResults[i].Checked = SecondArg(cmdResults[i]) \o <<" ", "d", "o", "n", "e">>
                 /\ cmdResults[i].CheckedDuration = cmdResults[i].Duration

\* Whether the record of a show invocation reports a provisioning status
\* that begins with PENDING_.
ReportsPending(r) ==
    \E kv \in r.Out.obj :
        /\ kv[1] = "provisioning_status"
        /\ Len(kv[2]) >= Len(<<"P", "E", "N", "D", "I", "N", "G", "_">>)
        /\ SubSeq(kv[2], 1, Len(<<"P", "E", "N", "D", "I", "N", "G", "_">>)) = <<"P", "E", "N", "D", "I", "N", "G", "_">>

\* C11: for a create or update command that exited 0, if the first show
\* invocation exits 0 with a status that does not begin with PENDING_, the
\* polling ends with that one invocation: the step that makes it is the
\* only call of RunCommand it makes and takes RunCmds on to the next
\* command; the poller is never found polling after a show that exited 0
\* with such a status.
C11_FirstFinalStatusEndsPolling ==
    /\ [][(/\ pc = "poll"
           /\ polls = 0
           /\ checkCr'.ExitCode = 0
           /\ ~ReportsPending(checkCr'))
              => /\ pc' = "run"
                 /\ idx' = idx + 1
                 /\ polls' = 1
                 /\ runnerCalls' = runnerCalls + 1]_vars
    /\ []((pc = "poll" /\ polls >= 1)
              => (checkCr.ExitCode = 0 /\ ReportsPending(checkCr)))

\* C11's case: the polling of a command has ended after one show
\* invocation, which exited 0 with a status that is not pending.
C11_Witness ==
    /\ pc = "run"
    /\ polls = 1
    /\ checkCmd # <<>>
    /\ checkCr.Command = checkCmd
    /\ checkCr.ExitCode = 0
    /\ ~ReportsPending(checkCr)
    /\ Operation(cmdResults[idx - 1]) \in { <<"c", "r", "e", "a", "t", "e">>, <<"u", "p", "d", "a", "t", "e">> }

\* C12: when a show invocation exits non-zero during polling, the poller's
\* Checked outcome records the failure, the polling stops in that step with
\* no further show invocation, and the batch goes on: RunCmds moves to the
\* next command with every record it holds kept.
C12_FailedShowEndsPolling ==
    [][(pc = "poll" /\ checkCr'.ExitCode # 0)
          => /\ pc' = "run"
             /\ idx' = idx + 1
             /\ runnerCalls' = runnerCalls + 1
             /\ cmdResults' = cmdResults
             /\ rlt'.Checked =
                    <<"F", "a", "i", "l", "e", "d", " ", "t", "o", " ", "c", "h", "e", "c", "k", " ", "e", "x", "e", "c", "u", "t", "i", "o", "n", " ", "o", "f", " ">> \o rlt.Command
                        \o <<":", " ">> \o checkCr'.Err
             /\ checkCr'.Err # <<>>]_vars

\* C12's case: the second show invocation for the first of two commands
\* exited non-zero, and RunCmds is about to run the second command.
C12_Witness ==
    /\ pc = "run"
    /\ idx = 2
    /\ Len(cmdList) = 2
    /\ polls = 2
    /\ checkCr.Command = checkCmd
    /\ checkCr.ExitCode # 0
    /\ rlt.Checked # <<>>

\* C13: only results whose command exited with code 0 are checked: the step
\* that runs a command whose exit code is non-zero (a process that never
\* started included) makes that one call of RunCommand and goes on to the
\* next command without polling, the poller is only ever found polling for
\* a command whose record has exit code 0, and the Checked field of a
\* record with a non-zero exit code stays unset.
C13_OnlyExitZeroIsChecked ==
    /\ [][(/\ pc = "run"
           /\ Len(cmdResults') = Len(cmdResults) + 1
           /\ cmdResults'[Len(cmdResults')].ExitCode # 0)
              => /\ pc' = "run"
                 /\ idx' = idx + 1
                 /\ runnerCalls' = runnerCalls + 1
                 /\ UNCHANGED <<checkCmd, polls>>]_vars
    /\ [](/\ pc = "poll" => cmdResults[idx].ExitCode = 0
          /\ \A i \in 1..Len(cmdResults) :
                cmdResults[i].ExitCode # 0
                    => /\ cmdResults[i].Checked = <<>>
                       /\ cmdResults[i].CheckedDuration = 0)

\* C13's case: of two commands the first never started, the second exited
\* with status 1, and RunCmds has returned without a show invocation.
C13_Witness ==
    /\ pc = "done"
    /\ Len(cmdResults) = 2
    /\ cmdResults[1].ExitCode < 0
    /\ cmdResults[2].ExitCode > 0
    /\ runnerCalls = 2

\* C14: a call of RunCommand whose process fails to start or whose wait
\* fails gives a record with a non-zero exit code (the sentinel -1 when the
\* process never started), an error text that is not empty and no
\* structured output, and it does not halt the batch: RunCmds has moved past
\* every command whose record has a non-zero exit code, and when it returns
\* there is a record for every command.
C14_FailedRunIsRecordedAndPassed ==
    /\ \A oc \in ProcOutcomes, d \in Durations :
          oc.kind # "ok" =>
              /\ RunCommand(<<"c">>, oc, d).ExitCode # 0
              /\ oc.kind = "nostart" => RunCommand(<<"c">>, oc, d).ExitCode = -1
              /\ RunCommand(<<"c">>, oc, d).Err # <<>>
              /\ RunCommand(<<"c">>, oc, d).Out.nil
    /\ \A i \in 1..Len(cmdResults) :
          cmdResults[i].ExitCode # 0 =>
              /\ cmdResults[i].Err # <<>>
              /\ cmdResults[i].Out.nil
              /\ idx > i
              /\ pc \in {"run", "poll", "panic", "done"}
    /\ pc \in {"poll", "panic"} => cmdResults[idx].ExitCode = 0
    /\ pc = "done" => Len(cmdResults) = Len(cmdList)

\* C14's case: the first of two commands never started, and the second has
\* been run and exited with code 0.
C14_Witness ==
    /\ Len(cmdResults) = 2
    /\ cmdResults[1].ExitCode = -1
    /\ cmdResults[1].Err # <<>>
    /\ cmdResults[1].Out.nil
    /\ cmdResults[2].ExitCode = 0

\* The id a record's output holds, as fmt prints it.
PrintedId(out) ==
    IF \E kv \in out.obj : kv[1] = "id"
    THEN (CHOOSE kv \in out.obj : kv[1] = "id")[2]
    ELSE <<"%", "!", "s", "(", "<", "n", "i", "l", ">", ")">>

FieldOf(out, key) ==
    IF \E kv \in out.obj : kv[1] = key
    THEN (CHOOSE kv \in out.obj : kv[1] = key)[2]
    ELSE <<>>

\* C16: the polling state machine of CheckExecution, for every show
\* invocation it makes: a show that exits 0 with a status that begins with
\* PENDING_ leaves the poller polling, with the same show command and its
\* record untouched; a show that exits 0 with any other status, an empty or
\* missing one included, ends the polling with the outcome "<id>: <status>";
\* and the polling ends only with such a status or a non-zero show exit.
C16_PollingStateMachine ==
    [][(pc = "poll" /\ runnerCalls' # runnerCalls) =>
          /\ (checkCr'.ExitCode = 0 /\ ReportsPending(checkCr')) =>
                /\ pc' = "poll"
                /\ idx' = idx
                /\ checkCmd' = checkCmd
                /\ rlt' = rlt
                /\ polls' = polls + 1
          /\ (checkCr'.ExitCode = 0 /\ ~ReportsPending(checkCr')) =>
                /\ pc' = "run"
                /\ rlt'.Checked =
                      FieldOf(checkCr'.Out, "id") \o <<":", " ">>
                          \o FieldOf(checkCr'.Out, "provisioning_status")
          /\ pc' # "poll" =>
                (checkCr'.ExitCode # 0 \/ ~ReportsPending(checkCr'))]_vars

\* C16's case: after a show that reported a pending status, a second show
\* exited 0 with no status at all and the polling has ended with the
\* outcome ": ".
C16_Witness ==
    /\ pc = "run"
    /\ polls = 2
    /\ checkCr.Command = checkCmd
    /\ checkCr.ExitCode = 0
    /\ FieldOf(checkCr.Out, "provisioning_status") = <<>>
    /\ rlt.Checked = <<":", " ">>

\* C19: every record RunCommand returns has, with exit code 0, an object for
\* its structured output, and with a non-zero exit code no structured
\* output and an error text that is not empty; so the poller always reads
\* the id from an object.
C19_OutputIsObjectOnSuccess ==
    /\ \A i \in 1..Len(cmdResults) :
          IF cmdResults[i].ExitCode = 0
          THEN ~cmdResults[i].Out.nil
          ELSE cmdResults[i].Out.nil /\ cmdResults[i].Err # <<>>
    /\ checkCr.Command # <<>> =>
          IF checkCr.ExitCode = 0
          THEN ~checkCr.Out.nil
          ELSE checkCr.Out.nil /\ checkCr.Err # <<>>
    /\ pc = "poll" => ~cmdResults[idx].Out.nil

(***************************************************************************)
(* SpecLive: the program when every subprocess invocation returns and no   *)
(* resource reports a pending status for ever.  RunCmds and CheckExecution *)
(* are straight-line loops of one goroutine whose only waits are           *)
(* cmd.Wait() and time.Sleep, so each of their steps is taken once it can  *)
(* be; a show that reports a pending status is followed by another show at *)
(* most MaxPolls times.  The fairness of RunCmdsIteration is weak fairness *)
(* written out, with the condition under which the step can be taken.      *)
(***************************************************************************)
\* for _, n := range cmdList has an element left.
RunCmdsIterationEnabled == pc = "run" /\ idx <= Len(cmdList)

RunCmdsFairness ==
    /\ \/ []<>(~RunCmdsIterationEnabled)
       \/ []<><<RunCmdsIteration>>_vars
    /\ WF_vars(CheckExecutionPoll)
    /\ WF_vars(RunCmdsReturn)

SpecLive == Init /\ [][Next]_vars /\ RunCmdsFairness

\* C20: if every subprocess invocation returns and every polled resource
\* eventually reports a status that is not pending (or its show command
\* fails), then RunCmds, once entered, eventually returns with a record for
\* every concrete command; and there is no attempt limit: a show that
\* reports a pending status never ends the polling and starts no command.
C20_BatchEventuallyTerminates ==
    /\ (pc = "run") ~> (pc = "done" /\ Len(cmdResults) = Len(cmdList))
    /\ [][(/\ pc = "poll"
           /\ runnerCalls' # runnerCalls
           /\ checkCr'.ExitCode = 0
           /\ ReportsPending(checkCr'))
              => /\ pc' = "poll"
                 /\ cmdResults' = cmdResults]_vars

\* What does hold of the batch under the same fairness: RunCmds, once
\* entered, returns with a record for every concrete command unless
\* CheckExecution panics on the way.
BatchTerminatesUnlessPanic ==
    (pc = "run") ~> (\/ pc = "panic"
                     \/ pc = "done" /\ Len(cmdResults) = Len(cmdList))

(***************************************************************************)
(* Properties of the template expander (SpecExpand).                       *)
(***************************************************************************)
\* The value list the mapping holds for a name: none for an absent name.
DeclaredValues(name) ==
    IF name \in DOMAIN exVariables THEN exVariables[name] ELSE <<>>

\* The sequence s without the repetitions of its elements.
RECURSIVE FirstSeen(_, _, _)
FirstSeen(s, k, seen) ==
    IF k > Len(s) THEN seen
    ELSE IF \E j \in 1..Len(seen) : seen[j] = s[k] THEN FirstSeen(s, k + 1, seen)
    ELSE FirstSeen(s, k + 1, Append(seen, s[k]))

\* The names of the placeholders of the template, each once, in the order
\* in which they are first met from the left.
UsedNames ==
    FirstSeen([i \in 1..Len(FindAllString(exTemplate, 1)) |->
                  VarNameOf(FindAllString(exTemplate, 1)[i])], 1, <<>>)

\* n1 * ... * nk for the value lists of the names from the k-th on.
RECURSIVE ProductFrom(_, _)
ProductFrom(names, k) ==
    IF k > Len(names) THEN 1
    ELSE Len(DeclaredValues(names[k])) * ProductFrom(names, k + 1)

\* Whether a string holds a placeholder token.
HasPlaceholder(s) == \E i \in 1..Len(s) : PlaceholderEnd(s, i) > 0

RECURSIVE ConcatAll(_)
ConcatAll(seqs) ==
    IF Len(seqs) = 0 THEN <<>> ELSE seqs[1] \o ConcatAll(Tail(seqs))

\* The template with every placeholder token replaced, in one pass from the
\* left, by the value the assignment asg gives its name.
RECURSIVE Render(_, _, _)
Render(t, asg, k) ==
    IF k > Len(t) THEN <<>>
    ELSE IF PlaceholderEnd(t, k) = 0 THEN <<t[k]>> \o Render(t, asg, k + 1)
    ELSE asg[SubSeq(t, k + 2, PlaceholderEnd(t, k) - 1)]
            \o Render(t, asg, PlaceholderEnd(t, k) + 1)

\* The nested iteration over the value lists of names, the first name the
\* outermost loop, each list in list order; the innermost body renders the
\* template under the values chosen.
RECURSIVE NestedIteration(_, _)
NestedIteration(names, asg) ==
    IF Len(names) = 0 THEN <<Render(exTemplate, asg, 1)>>
    ELSE ConcatAll(
            [j \in 1..Len(DeclaredValues(names[1])) |->
                NestedIteration(Tail(names),
                    [n \in (DOMAIN asg) \cup {names[1]} |->
                        IF n = names[1] THEN DeclaredValues(names[1])[j]
                        ELSE asg[n]])])

\* The inputs in which text is only text: every percent sign of the
\* template begins a placeholder token, and no value holds a percent or a
\* dollar sign.
PlainInput ==
    /\ \A i \in 1..Len(exTemplate) :
          exTemplate[i] = "%" => PlaceholderEnd(exTemplate, i) > 0
    /\ \A n \in DOMAIN exVariables : \A j \in 1..Len(exVariables[n]) :
          \A i \in 1..Len(exVariables[n][j]) :
              exVariables[n][j][i] \notin {"%", "$"}

\* C4: for every template with k distinct used placeholders whose value
\* lists have lengths n1..nk, ConstructFromTemplate emits exactly n1*...*nk
\* commands, and no emitted command holds a remaining placeholder token.
C4_EmitsCartesianProduct ==
    exDone =>
        /\ ~exResult.overflow
        /\ Len(exResult.cmds) = ProductFrom(UsedNames, 1)
        /\ \A i \in 1..Len(exResult.cmds) : ~HasPlaceholder(exResult.cmds[i])

\* C5: the emitted sequence is the nested iteration over the value lists,
\* the leftmost placeholder the outermost loop and each list in list order:
\* whenever the expander returns, what it emitted is, for each value of the
\* leftmost placeholder in list order, what it emits for the template with
\* that placeholder replaced by the value, one after the other (the
\* template itself when it holds no placeholder); and on inputs in which
\* text is only text it is the nested iteration over the lists of the
\* template's placeholders in the order they are first met.
C5_OrderIsNestedIteration ==
    (exDone /\ ~exResult.overflow) =>
        /\ IF FindString(exTemplate) = <<>>
           THEN exResult.cmds = <<exTemplate>>
           ELSE exResult.cmds =
                  ConcatAll(
                    [j \in 1..Len(DeclaredValues(VarNameOf(FindString(exTemplate)))) |->
                        ConstructFromTemplate(
                            ReplaceAllString(exTemplate, FindString(exTemplate),
                                DeclaredValues(VarNameOf(FindString(exTemplate)))[j]),
                            exVariables).cmds])
        /\ PlainInput => exResult.cmds = NestedIteration(UsedNames, <<>>)

\* C5's case: the expander has returned from a template with two
\* placeholders, in which text is only text, with four commands that all
\* differ.
C5_Witness ==
    /\ exDone
    /\ ~exResult.overflow
    /\ PlainInput
    /\ Len(UsedNames) = 2
    /\ Len(exResult.cmds) = 4
    /\ \A i, j \in 1..4 : i # j => exResult.cmds[i] # exResult.cmds[j]

\* C6: if a placeholder that appears in the template has an empty value
\* list, or none in the mapping, no command is emitted, neither with the
\* placeholder left in nor with it replaced by nothing; and the expander
\* returns when it meets such a placeholder.
C6_EmptyListPrunes ==
    exDone =>
        /\ (\E k \in 1..Len(UsedNames) : DeclaredValues(UsedNames[k]) = <<>>)
              => exResult.cmds = <<>>
        /\ (/\ Len(UsedNames) > 0
            /\ DeclaredValues(UsedNames[1]) = <<>>)
              => ~exResult.overflow

\* C6's case: the expander has returned from a template whose leftmost
\* placeholder has values and in which a later placeholder has none, and
\* nothing was emitted.
C6_Witness ==
    /\ exDone
    /\ ~exResult.overflow
    /\ Len(UsedNames) = 2
    /\ Len(DeclaredValues(UsedNames[1])) = 2
    /\ DeclaredValues(UsedNames[2]) = <<>>
    /\ exResult.cmds = <<>>

\* C17: ConstructFromTemplate terminates for every template and every
\* mapping of placeholders to values, whatever strings the values are.
C17_ExpanderTerminates ==
    exDone => ~exResult.overflow

\* C18: each emitted command is the template with every occurrence of each
\* used placeholder replaced by a value of its list exactly as the value
\* stands in the list, occurrences of one name getting one value and the
\* text outside placeholders unchanged: it is one of the renderings of the
\* template under the choices of one value for each of its placeholders.
C18_ValuesInsertedExactly ==
    exDone =>
        \A i \in 1..Len(exResult.cmds) :
            \E j \in 1..Len(NestedIteration(UsedNames, <<>>)) :
                exResult.cmds[i] = NestedIteration(UsedNames, <<>>)[j]

(***************************************************************************)
(* Properties of the value-list parser (SpecParse).                        *)
(***************************************************************************)
\* The number a digit string writes.
RECURSIVE NumberOf(_, _, _)
NumberOf(s, k, acc) ==
    IF k > Len(s) THEN acc ELSE NumberOf(s, k + 1, acc * 10 + DigitVal(s[k]))

RangeStart(n) == NumberOf(Split(n, "-")[1], 1, 0)
RangeEnd(n) == NumberOf(Split(n, "-")[2], 1, 0)

\* A token of the form digits-digits with start > end.
InvertedRange(n) == RangePatternMatch(n) /\ RangeStart(n) > RangeEnd(n)

\* What one token expands to: the integers of its range, ascending, as
\* decimal strings without padding, or the token itself.
TokenExpansion(n) ==
    IF ~RangePatternMatch(n) THEN <<n>>
    ELSE IF RangeStart(n) > RangeEnd(n) THEN <<>>
    ELSE [k \in 1..(RangeEnd(n) - RangeStart(n) + 1) |-> Itoa(RangeStart(n) + k - 1)]

\* The concatenation, in token order, of the expansions of the tokens.
ExpectedValues(v) ==
    ConcatAll([k \in 1..Len(Split(v, ",")) |-> TokenExpansion(Split(v, ",")[k])])

\* C7: ParseVarValues returns, for a comma-separated input, the
\* concatenation in token order of each token's expansion: a digits-digits
\* token with start <= end gives every integer of the range, ascending, a
\* digits-digits token with start > end gives nothing, any other token
\* gives itself.
C7_ReturnsTokenExpansions ==
    pvDone =>
        /\ ~pvResult.hang
        /\ pvResult.rlt = ExpectedValues(pvInput)

\* C8 as stated: ParseVarValues returns at least one value for every
\* non-empty input, and the empty list for the empty input.
C8_EmptyOnlyForEmptyInput ==
    (pvDone /\ ~pvResult.hang) =>
        ((pvResult.rlt = <<>>) <=> (pvInput = <<>>))

\* C8, amended: whenever ParseVarValues returns, the list is empty exactly
\* when every comma-separated token of the input is a digits-digits range
\* with start > end; the empty input, whose one token is the empty string,
\* gives the list that holds the empty string.
C8_EmptyOnlyForInvertedRanges ==
    (pvDone /\ ~pvResult.hang) =>
        /\ (pvResult.rlt = <<>>)
              <=> (\A k \in 1..Len(Split(pvInput, ",")) :
                      InvertedRange(Split(pvInput, ",")[k]))
        /\ pvInput = <<>> => pvResult.rlt = << <<>> >>

\* C8's case: ParseVarValues has returned the empty list for an input that
\* is not empty.
C8_Witness ==
    /\ pvDone
    /\ ~pvResult.hang
    /\ pvInput # <<>>
    /\ pvResult.rlt = <<>>

=============================================================================
